---- MODULE Spec2Model ----
(***************************************************************************)
(* A model of scripts/auto-weekly-generator.js, the OpenClaw Weekly report *)
(* generator: the week-period calculator, the GitHub activity fetchers,    *)
(* the AI backend selection, the document renderer and the two index       *)
(* regenerators.                                                           *)
(*                                                                         *)
(* A JavaScript Date holds milliseconds since 1970-01-01T00:00:00Z.  The   *)
(* values of interest (about 1.77 * 10^12) do not fit TLC's 32-bit         *)
(* integers, so a Date is the record [day, ms]: its value is               *)
(* day * 86400000 + ms with 0 <= ms < 86400000.                            *)
(***************************************************************************)
EXTENDS Integers, Sequences, FiniteSets, TLC

VARIABLES
    weekNumber,     \* getWeekPeriod: the week index passed in
    period,         \* getWeekPeriod: the last period returned, or None
    prevPeriod,     \* the period returned for weekNumber - 1, or None
    responses,      \* GitHub: what the server answers on each endpoint
    requests,       \* GitHub: the endpoints requested so far, in order
    sub,            \* the outcome of each fetcher (a settled promise), or None
    limit,          \* getTopIssues: the limit passed in
    snapshot,       \* getWeeklyData: its outcome, or None
    env,            \* the API keys of the four AI providers (process.env)
    aiSelected,     \* analyzeWithAI: the provider the last call selected
    aiPending,      \* analyzeWithAI: the provider whose answer is awaited
    aiContacted,    \* the AI backends requested so far, in order
    aiResults,      \* what each completed analyzeWithAI call returned, in order
    weeklyData,     \* generateWeeklyContent: the snapshots passed in
    content,        \* generateWeeklyContent: the document returned, or None
    tz,             \* the local time zone, in hours east of UTC
    files,          \* the file names in docs/
    configFile,     \* the text of .vitepress/config.js, or None
    indexFile,      \* the text of index.md, or None
    writes,         \* the files written so far, in order
    log,            \* the console messages of the index regenerators, in order
    pc,             \* main: where it stands, "idle" when it is not running
    argv,           \* process.argv[2], the week argument, or None
    repos,          \* CONFIG.repos, the names of the repositories in order
    events,         \* main: what has happened in the collecting loop, in order
    docFile,        \* the text of the document main writes to docs/, or None
    rejection,      \* the reason main's promise was rejected with, or None
    exitCode,       \* the status the process ended with, or None
    runs,           \* the number of runs of the pipeline started
    disk0           \* the files as they were before the first run

periodVars == <<weekNumber, period, prevPeriod>>
fetchVars  == <<responses, requests, sub, limit, snapshot>>
aiVars     == <<env, aiSelected, aiPending, aiContacted, aiResults>>
renderVars == <<weeklyData, content>>
indexVars  == <<tz, files, configFile, indexFile, writes, log>>
mainVars   == <<pc, argv, repos, events, docFile, rejection, exitCode, runs, disk0>>

vars == <<weekNumber, period, prevPeriod, responses, requests, sub, limit, snapshot,
          env, aiSelected, aiPending, aiContacted, aiResults, weeklyData, content,
          tz, files, configFile, indexFile, writes, log,
          pc, argv, repos, events, docFile, rejection, exitCode, runs, disk0>>

\* An absent value (null, or not yet computed); every present value is a record too.
None == [none |-> TRUE]

----------------------------------------------------------------------------
(* Bounds of the model *)

MaxWeek == 40          \* SpecPeriod: week indices 1..MaxWeek
MaxIssues == 4         \* SpecIssues: items on the search page
MaxReactions == 2      \* SpecIssues: reaction counts 0..MaxReactions
MaxLimit == 3          \* SpecIssues: limits 0..MaxLimit
MaxReleases == 2       \* SpecReleases: releases on the page
MaxReleaseWeek == 2    \* SpecReleases: week indices 1..MaxReleaseWeek
MaxFetchWeek == 2      \* SpecFetch: week indices 1..MaxFetchWeek
MaxRepos == 2          \* SpecRender: snapshots passed to the renderer
MaxDocWeek == 5        \* SpecIndex: documents 00.md .. up to this week (and 22, 40, 100)
MaxIndexTokens == 3    \* SpecIndex: pieces of text of index.md
MaxRuns == 3           \* SpecRerun: runs of the pipeline, one after the other
MaxIndexRuns == 2      \* SpecIndex: calls of the two regenerators

----------------------------------------------------------------------------
(* Dates *)

MsPerDay == 86400000

\* new Date('2025-12-29'): a date-only ISO string is UTC midnight.
BaseDateDay == 20451

Date(d, m) == [day |-> d, ms |-> m]

\* new Date(t.getTime() + days * 24*60*60*1000 + ms), for -MsPerDay < ms < MsPerDay
AddTime(t, days, ms) ==
    LET raw == t.ms + ms
    IN  IF raw < 0 THEN Date(t.day + days - 1, raw + MsPerDay)
        ELSE IF raw >= MsPerDay THEN Date(t.day + days + 1, raw - MsPerDay)
        ELSE Date(t.day + days, raw)

\* a <= b on Dates (the comparison of their getTime() values)
DateLeq(a, b) == a.day < b.day \/ (a.day = b.day /\ a.ms <= b.ms)

\* The civil date of day number z (days since 1970-01-01), as the Date
\* getters compute it in the proleptic Gregorian calendar.
\* (era: the 400-year cycle; doe, yoe, doy: the day of the era, the year of
\* the era, the day of the year counted from 1 March; mp: the month from March)
CivilFromMonth(era, yoe, doy, mp) ==
    [year  |-> yoe + era * 400 + (IF mp < 10 THEN 0 ELSE 1),
     month |-> IF mp < 10 THEN mp + 3 ELSE mp - 9,
     day   |-> doy - (153 * mp + 2) \div 5 + 1]

CivilFromDoy(era, yoe, doy) == CivilFromMonth(era, yoe, doy, (5 * doy + 2) \div 153)

CivilFromYoe(era, doe, yoe) ==
    CivilFromDoy(era, yoe, doe - (365 * yoe + yoe \div 4 - yoe \div 100))

CivilFromDoe(era, doe) ==
    CivilFromYoe(era, doe,
                 (doe - doe \div 1460 + doe \div 36524 - doe \div 146096) \div 365)

CivilFromDays(z) == CivilFromDoe((z + 719468) \div 146097, (z + 719468) % 146097)

\* The day number of the civil date y-m-d.
DaysFromYoe(era, yoe, doy) ==
    era * 146097 + (yoe * 365 + yoe \div 4 - yoe \div 100 + doy) - 719468

DaysFromMarchYear(yy, mp, d) ==
    DaysFromYoe(yy \div 400, yy % 400, (153 * mp + 2) \div 5 + d - 1)

DaysFromCivil(y, m, d) ==
    IF m <= 2 THEN DaysFromMarchYear(y - 1, m + 9, d) ELSE DaysFromMarchYear(y, m - 3, d)

MsPerHour == 3600000

\* date.getFullYear(), date.getMonth() + 1, date.getDate(): the local civil
\* date in a zone `zone` hours east of UTC.
LocalDate(t, zone) == CivilFromDays(AddTime(t, 0, zone * MsPerHour).day)

\* formatDate: `${year}年${month}月${day}日`, kept as its three numbers
formatDate(t, zone) == LocalDate(t, zone)

\* A mutant of getWeekPeriod: the end is the start of the next week.
getWeekPeriodInclusiveEnd(w) ==
    LET startDate == AddTime(Date(BaseDateDay, 0), (w - 1) * 7, 0)
    IN  [start |-> startDate, end |-> AddTime(startDate, 7, 0)]

getWeekPeriod(w) ==
    LET baseDate  == Date(BaseDateDay, 0)
        startDate == AddTime(baseDate, (w - 1) * 7, 0)
        endDate   == AddTime(startDate, 7, -1)
    IN  [start |-> startDate, end |-> endDate]

----------------------------------------------------------------------------
(* The GitHub API: requests, responses and the five fetchers *)

Endpoints == {"repo", "searchCommits", "listCommits", "releases", "searchPRs", "searchIssues"}
Fetchers  == {"info", "commits", "releases", "prs", "issues"}

\* A response: fetch() throws (a network failure), or the status is not ok,
\* or the status is ok and the body parses to JSON.
NetworkError == [kind |-> "neterr"]
HttpError    == [kind |-> "http"]
Ok(body)     == [kind |-> "ok", body |-> body]
Failures     == {NetworkError, HttpError}

NoResponses == [e \in Endpoints |-> None]
NoOutcomes  == [f \in Fetchers |-> None]

\* A settled promise of an async function.
Fulfilled(v) == [state |-> "fulfilled", value |-> v]
Rejected     == [state |-> "rejected"]
\* getCommitCount awaiting the fallback listing.
AwaitListing == [state |-> "awaitListing"]
\* A fetcher awaiting the answer to its first request.
Pending      == [state |-> "pending"]

FetchIdle ==
    /\ responses = NoResponses
    /\ requests = <<>>
    /\ sub = NoOutcomes
    /\ limit = 0
    /\ snapshot = None

\* A mutant of githubRequest: no try/catch, a failed request throws.
githubRequestNoCatch(resp) ==
    IF resp.kind = "ok" THEN [threw |-> FALSE, null |-> FALSE, data |-> resp.body]
    ELSE [threw |-> TRUE, null |-> TRUE, data |-> None]

\* githubRequest: the data, or null after any error (logged, never rethrown).
\* threw: the returned promise rejected; null: it resolved to null.
githubRequest(resp) ==
    IF resp.kind = "ok" THEN [threw |-> FALSE, null |-> FALSE, data |-> resp.body]
    ELSE [threw |-> FALSE, null |-> TRUE, data |-> None]

Min(a, b) == IF a <= b THEN a ELSE b

\* s.slice(0, n) for n >= 0
Slice(s, n) == SubSeq(s, 1, Min(n, Len(s)))

\* a || b on numbers: 0 is falsy
OrElse(a, b) == IF a # 0 THEN a ELSE b

\* Array.prototype.sort with the comparator (a, b) => key(b) - key(a), which is
\* stable: the permutation of 1..Len(keys) it applies, by insertion.
RECURSIVE InsertDesc(_, _, _)
InsertDesc(perm, keys, x) ==
    IF perm = <<>> THEN <<x>>
    ELSE IF keys[x] - keys[Head(perm)] > 0 THEN <<x>> \o perm
    ELSE <<Head(perm)>> \o InsertDesc(Tail(perm), keys, x)

RECURSIVE SortPermFrom(_, _, _)
SortPermFrom(perm, keys, i) ==
    IF i > Len(keys) THEN perm
    ELSE SortPermFrom(InsertDesc(perm, keys, i), keys, i + 1)

SortDesc(s, keys) ==
    LET perm == SortPermFrom(<<>>, keys, 1)
    IN  [i \in 1..Len(s) |-> s[perm[i]]]

\* getRepoInfo
getRepoInfo(r) ==
    IF r.threw THEN Rejected
    ELSE IF r.null THEN Fulfilled(None)
    ELSE Fulfilled([stars |-> r.data.stargazers_count,
                    forks |-> r.data.forks_count,
                    openIssues |-> r.data.open_issues_count])

\* getCommitCount, from the answer to the search: the count, 0 when there is
\* none, and the fallback listing only when githubRequest threw.
getCommitCountSearched(r) ==
    IF r.threw THEN AwaitListing
    ELSE IF ~ r.null THEN Fulfilled(r.data.total_count)
    ELSE Fulfilled(0)

\* getCommitCount, from the answer to the fallback listing (inside the catch
\* block, so a throw here rejects).
getCommitCountListed(r) ==
    IF r.threw THEN Rejected
    ELSE IF ~ r.null THEN Fulfilled(Len(r.data))
    ELSE Fulfilled(0)

\* new Date(release.published_at): null gives the epoch
ParseDate(s) == IF s = None THEN Date(0, 0) ELSE s

mapRelease(release) ==
    [tagName |-> release.tag_name, publishedAt |-> release.published_at,
     draft |-> release.draft, body |-> release.body]

\* A mutant of getReleases: the period's bounds are excluded.
getReleasesExclusive(r, since, until) ==
    IF r.threw THEN Rejected
    ELSE IF r.null THEN Fulfilled(<<>>)
    ELSE LET InPeriod(release) ==
                 LET publishedAt == ParseDate(release.published_at)
                 IN  ~ DateLeq(publishedAt, since) /\ ~ DateLeq(until, publishedAt)
             kept == SelectSeq(r.data, InPeriod)
         IN  Fulfilled([i \in 1..Len(kept) |-> mapRelease(kept[i])])

\* getReleases
getReleases(r, since, until) ==
    IF r.threw THEN Rejected
    ELSE IF r.null THEN Fulfilled(<<>>)
    ELSE LET InPeriod(release) ==
                 LET publishedAt == ParseDate(release.published_at)
                 IN  DateLeq(since, publishedAt) /\ DateLeq(publishedAt, until)
             kept == SelectSeq(r.data, InPeriod)
         IN  Fulfilled([i \in 1..Len(kept) |-> mapRelease(kept[i])])

NoPullRequests == [total |-> 0, merged |-> 0, open |-> 0, prs |-> <<>>]

\* getPullRequests: a throw inside its try block is caught.
getPullRequests(r) ==
    IF r.threw \/ r.null THEN Fulfilled(NoPullRequests)
    ELSE LET items == r.data.items
             prs == [i \in 1..Len(items) |->
                        [number |-> items[i].number, state |-> items[i].state,
                         mergedAt |-> items[i].merged_at]]
             \* prs.filter(pr => pr.mergedAt).length, prs.filter(pr => pr.state === 'open').length
             merged == Cardinality({i \in 1..Len(prs) : prs[i].mergedAt # None})
             open == Cardinality({i \in 1..Len(prs) : prs[i].state = "open"})
         IN  Fulfilled([total |-> OrElse(r.data.total_count, Len(items)),
                        merged |-> merged,
                        open |-> open,
                        prs |-> prs])

NoIssues == [totalCount |-> 0, topIssues |-> <<>>]

mapIssue(issue) ==
    [number |-> issue.number, state |-> issue.state,
     reactions |-> IF issue.reactions = None THEN 0
                   ELSE OrElse(issue.reactions.total_count, 0)]

\* A mutant of getTopIssues: the pull requests are not dropped.
getTopIssuesUnfiltered(r, n) ==
    IF r.threw \/ r.null THEN Fulfilled(NoIssues)
    ELSE LET issuesOnly == r.data.items
             issuesWithReactions == [i \in 1..Len(issuesOnly) |-> mapIssue(issuesOnly[i])]
             keys == [i \in 1..Len(issuesOnly) |-> issuesWithReactions[i].reactions]
         IN  Fulfilled([totalCount |-> OrElse(r.data.total_count, Len(issuesOnly)),
                        topIssues |-> Slice(SortDesc(issuesWithReactions, keys), n)])

\* getTopIssues: a throw inside its try block is caught.
getTopIssues(r, n) ==
    IF r.threw \/ r.null THEN Fulfilled(NoIssues)
    ELSE LET IsIssue(item) == ~ item.pull_request
             issuesOnly == SelectSeq(r.data.items, IsIssue)
             issuesWithReactions == [i \in 1..Len(issuesOnly) |-> mapIssue(issuesOnly[i])]
             keys == [i \in 1..Len(issuesOnly) |-> issuesWithReactions[i].reactions]
         IN  Fulfilled([totalCount |-> OrElse(r.data.total_count, Len(issuesOnly)),
                        topIssues |-> Slice(SortDesc(issuesWithReactions, keys), n)])

----------------------------------------------------------------------------
(* The states of the parts a specification leaves alone *)

Unset == [set |-> FALSE, value |-> <<>>]

AiIdle ==
    /\ env = [dify |-> Unset, qwen |-> Unset, openai |-> Unset, claude |-> Unset]
    /\ aiSelected = "unselected"
    /\ aiPending = "none"
    /\ aiContacted = <<>>
    /\ aiResults = <<>>

RenderIdle ==
    /\ weeklyData = <<>>
    /\ content = None

IndexIdle ==
    /\ tz = 0
    /\ files = {}
    /\ configFile = None
    /\ indexFile = None
    /\ writes = <<>>
    /\ log = <<>>

\* main is not running: the functions are called on their own.
MainIdle ==
    /\ pc = "idle"
    /\ argv = None
    /\ repos = <<>>
    /\ events = <<>>
    /\ docFile = None
    /\ rejection = None
    /\ exitCode = None
    /\ runs = 0
    /\ disk0 = None

----------------------------------------------------------------------------
(* SpecPeriod: getWeekPeriod called for consecutive week indices *)

InitPeriod ==
    /\ MainIdle
    /\ weekNumber \in 1..MaxWeek
    /\ period = None
    /\ prevPeriod = None
    /\ FetchIdle
    /\ AiIdle /\ RenderIdle /\ IndexIdle

\* The first call, for weekNumber.
CallGetWeekPeriod ==
    /\ period = None
    /\ period' = getWeekPeriod(weekNumber)
    /\ UNCHANGED <<mainVars, weekNumber, prevPeriod, fetchVars, aiVars, renderVars, indexVars>>

\* The call for the next week index; the previous result is kept beside it.
CallGetNextWeekPeriod ==
    /\ period # None
    /\ weekNumber < MaxWeek
    /\ weekNumber' = weekNumber + 1
    /\ prevPeriod' = period
    /\ period' = getWeekPeriod(weekNumber + 1)
    /\ UNCHANGED <<mainVars, fetchVars, aiVars, renderVars, indexVars>>

NextPeriod == CallGetWeekPeriod \/ CallGetNextWeekPeriod

SpecPeriod == InitPeriod /\ [][NextPeriod]_vars

----------------------------------------------------------------------------
(* C1: getWeekPeriod(w) starts (w-1)*7 days after the epoch 2025-12-29T00:00Z
   and ends 7 days minus 1 ms after its start; the period of week w+1 starts
   1 ms after the end of the period of week w. *)
C1_PeriodContiguous ==
    /\ period # None =>
        /\ period.start = Date(BaseDateDay + (weekNumber - 1) * 7, 0)
        /\ period.end = Date(period.start.day + 6, MsPerDay - 1)
        /\ AddTime(period.start, 7, -1) = period.end
    /\ prevPeriod # None =>
        /\ period.start = AddTime(prevPeriod.end, 0, 1)
        /\ ~ DateLeq(period.start, prevPeriod.end)

C1_Witness ==
    /\ prevPeriod # None
    /\ weekNumber = 6
    /\ period.start = Date(BaseDateDay + 35, 0)

----------------------------------------------------------------------------
(* SpecIssues: getTopIssues on every small search page and limit *)

\* All sequences of length at most n over S.
SeqsUpTo(S, n) == UNION {[1..k -> S] : k \in 0..n}

IssueKinds == [pull_request : BOOLEAN, reactions : 0..MaxReactions]

\* The search page made of the given kinds; item i has number i.
IssuePage(kinds) ==
    [total_count |-> Len(kinds),
     items |-> [i \in 1..Len(kinds) |->
                   [number |-> i, state |-> "open",
                    pull_request |-> kinds[i].pull_request,
                    reactions |-> [total_count |-> kinds[i].reactions]]]]

InitIssues ==
    /\ MainIdle
    /\ weekNumber = 1
    /\ period = getWeekPeriod(1)
    /\ prevPeriod = None
    /\ \E r \in Failures \cup {Ok(IssuePage(k)) : k \in SeqsUpTo(IssueKinds, MaxIssues)} :
          responses = [NoResponses EXCEPT !["searchIssues"] = r]
    /\ requests = <<>>
    /\ sub = NoOutcomes
    /\ limit \in 0..MaxLimit
    /\ snapshot = None
    /\ AiIdle /\ RenderIdle /\ IndexIdle

CallGetTopIssues ==
    /\ sub["issues"] = None
    /\ requests' = Append(requests, "searchIssues")
    /\ sub' = [sub EXCEPT !["issues"] =
                  getTopIssues(githubRequest(responses["searchIssues"]), limit)]
    /\ UNCHANGED <<mainVars, periodVars, responses, limit, snapshot, aiVars, renderVars, indexVars>>

NextIssues == CallGetTopIssues

SpecIssues == InitIssues /\ [][NextIssues]_vars

(* C4: getTopIssues drops the pull requests, then returns the first
   min(limit, n) of the n remaining issues in descending order of reaction
   count, equal counts in the order of the search page. *)
C4_TopIssuesRanked ==
    (sub["issues"] # None /\ responses["searchIssues"].kind = "ok") =>
        LET items == responses["searchIssues"].body.items
            top == sub["issues"].value.topIssues
            Issues == {i \in 1..Len(items) : ~ items[i].pull_request}
            count(i) == items[i].reactions.total_count
            \* the place of issue i in the ranking
            rank(i) == 1 + Cardinality({j \in Issues :
                            count(j) > count(i) \/ (count(j) = count(i) /\ j < i)})
        IN  /\ sub["issues"].state = "fulfilled"
            /\ Len(top) = Min(limit, Cardinality(Issues))
            /\ \A i \in Issues : rank(i) <= Len(top) =>
                   /\ top[rank(i)].number = items[i].number
                   /\ top[rank(i)].reactions = count(i)

C4_Witness ==
    /\ sub["issues"] # None
    /\ responses["searchIssues"].kind = "ok"
    /\ limit = 3
    /\ LET items == responses["searchIssues"].body.items
           top == sub["issues"].value.topIssues
       IN  /\ Len(items) = 4
           /\ items[1].pull_request /\ items[1].reactions.total_count = 2
           /\ \A i \in 2..4 : ~ items[i].pull_request
           /\ <<items[2].reactions.total_count, items[3].reactions.total_count,
                items[4].reactions.total_count>> = <<1, 2, 2>>
           /\ <<top[1].number, top[2].number, top[3].number>> = <<3, 4, 2>>

----------------------------------------------------------------------------
(* SpecReleases: getReleases on every small release page *)

\* Publication times around the period; None is a draft (published_at null).
PublishTimes(p) ==
    {AddTime(p.start, 0, -1), p.start, AddTime(p.start, 3, 1000),
     p.end, AddTime(p.end, 0, 1), None}

\* The release page published at the given times; release i has tag i.
ReleasePage(times) ==
    [i \in 1..Len(times) |->
        [tag_name |-> i, published_at |-> times[i],
         draft |-> (times[i] = None), body |-> [len |-> 10 * i]]]

InitReleases ==
    /\ MainIdle
    /\ weekNumber \in 1..MaxReleaseWeek
    /\ period = getWeekPeriod(weekNumber)
    /\ prevPeriod = None
    /\ \E r \in Failures \cup
            {Ok(ReleasePage(t)) : t \in SeqsUpTo(PublishTimes(period), MaxReleases)} :
          responses = [NoResponses EXCEPT !["releases"] = r]
    /\ requests = <<>>
    /\ sub = NoOutcomes
    /\ limit = 0
    /\ snapshot = None
    /\ AiIdle /\ RenderIdle /\ IndexIdle

CallGetReleases ==
    /\ sub["releases"] = None
    /\ requests' = Append(requests, "releases")
    /\ sub' = [sub EXCEPT !["releases"] =
                  getReleases(githubRequest(responses["releases"]), period.start, period.end)]
    /\ UNCHANGED <<mainVars, periodVars, responses, limit, snapshot, aiVars, renderVars, indexVars>>

NextReleases == CallGetReleases

SpecReleases == InitReleases /\ [][NextReleases]_vars

(* C5: getReleases returns exactly the releases of the page published within
   the period, bounds included, in the order of the page: one published at
   period.start or at period.end is returned, one published 1 ms before
   period.start or 1 ms after period.end is not. *)
C5_ReleasesInPeriod ==
    (sub["releases"] # None /\ responses["releases"].kind = "ok") =>
        LET page == responses["releases"].body
            got == sub["releases"].value
            \* the period is the 7 whole days from period.start.day on
            Within(t) == t # None /\ t.day \in period.start.day..(period.start.day + 6)
            Kept == {i \in 1..Len(page) : Within(page[i].published_at)}
            place(i) == 1 + Cardinality({j \in Kept : j < i})
        IN  /\ sub["releases"].state = "fulfilled"
            /\ Len(got) = Cardinality(Kept)
            /\ \A i \in Kept : got[place(i)].tagName = page[i].tag_name
            /\ \A i \in 1..Len(page) :
                  /\ page[i].published_at \in {period.start, period.end} => i \in Kept
                  /\ page[i].published_at \in
                        {AddTime(period.start, 0, -1), AddTime(period.end, 0, 1)}
                     => i \notin Kept

C5_Witness ==
    /\ sub["releases"] # None
    /\ responses["releases"].kind = "ok"
    /\ LET page == responses["releases"].body
           got == sub["releases"].value
       IN  /\ Len(page) = 2
           /\ page[1].published_at = period.end
           /\ page[2].published_at = AddTime(period.start, 0, -1)
           /\ Len(got) = 1
           /\ got[1].tagName = 1

----------------------------------------------------------------------------
(* SpecFetch: getWeeklyData, its five fetchers dispatched together and joined *)

\* getTopIssues(owner, repo, startDate, endDate, 5)
TopIssuesLimit == 5

SampleRepo == [stargazers_count |-> 7, forks_count |-> 2, open_issues_count |-> 3]

SamplePullRequests ==
    {[total_count |-> 0, items |-> <<>>],
     [total_count |-> 2,
      items |-> <<[number |-> 11, state |-> "open", merged_at |-> None],
                  [number |-> 12, state |-> "closed", merged_at |-> Date(BaseDateDay, 0)]>>]}

SampleIssues ==
    {IssuePage(<<>>),
     IssuePage(<<[pull_request |-> FALSE, reactions |-> 1],
                 [pull_request |-> TRUE, reactions |-> 2],
                 [pull_request |-> FALSE, reactions |-> 2]>>)}

SampleReleases(p) ==
    {ReleasePage(<<>>), ReleasePage(<<p.start, AddTime(p.end, 0, 1)>>)}

SampleCommitCounts == {0, 3}

\* The fallback listing's page: two commits.
SampleListing == <<[sha |-> 1], [sha |-> 2]>>

InitFetch ==
    /\ MainIdle
    /\ weekNumber \in 1..MaxFetchWeek
    /\ period = getWeekPeriod(weekNumber)
    /\ prevPeriod = None
    /\ \E info \in Failures \cup {Ok(SampleRepo)},
          count \in Failures \cup {Ok([total_count |-> n]) : n \in SampleCommitCounts},
          listing \in {HttpError, Ok(SampleListing)},
          rels \in Failures \cup {Ok(page) : page \in SampleReleases(period)},
          prs \in Failures \cup {Ok(page) : page \in SamplePullRequests},
          issues \in Failures \cup {Ok(page) : page \in SampleIssues} :
          responses = [repo |-> info, searchCommits |-> count, listCommits |-> listing,
                       releases |-> rels, searchPRs |-> prs, searchIssues |-> issues]
    /\ requests = <<>>
    /\ sub = NoOutcomes
    /\ limit = TopIssuesLimit
    /\ snapshot = None
    /\ AiIdle /\ RenderIdle /\ IndexIdle

\* Promise.all([...]): each fetcher runs up to its first await, which sends
\* its request.
Dispatch ==
    /\ requests = <<>>
    /\ requests' = <<"repo", "searchCommits", "releases", "searchPRs", "searchIssues">>
    /\ sub' = [f \in Fetchers |-> Pending]
    /\ UNCHANGED <<mainVars, periodVars, responses, limit, snapshot, aiVars, renderVars, indexVars>>

RepoInfoReturns ==
    /\ sub["info"] = Pending
    /\ sub' = [sub EXCEPT !["info"] = getRepoInfo(githubRequest(responses["repo"]))]
    /\ UNCHANGED <<mainVars, periodVars, responses, requests, limit, snapshot, aiVars, renderVars, indexVars>>

\* getCommitCount resumes: after the search, or after the fallback listing.
CommitCountReturns ==
    /\ sub["commits"] \in {Pending, AwaitListing}
    /\ LET outcome ==
               IF sub["commits"] = Pending
               THEN getCommitCountSearched(githubRequest(responses["searchCommits"]))
               ELSE getCommitCountListed(githubRequest(responses["listCommits"]))
       IN  /\ sub' = [sub EXCEPT !["commits"] = outcome]
           /\ requests' = IF outcome = AwaitListing
                          THEN Append(requests, "listCommits") ELSE requests
    /\ UNCHANGED <<mainVars, periodVars, responses, limit, snapshot, aiVars, renderVars, indexVars>>

ReleasesReturn ==
    /\ sub["releases"] = Pending
    /\ sub' = [sub EXCEPT !["releases"] =
                  getReleases(githubRequest(responses["releases"]), period.start, period.end)]
    /\ UNCHANGED <<mainVars, periodVars, responses, requests, limit, snapshot, aiVars, renderVars, indexVars>>

PullRequestsReturn ==
    /\ sub["prs"] = Pending
    /\ sub' = [sub EXCEPT !["prs"] = getPullRequests(githubRequest(responses["searchPRs"]))]
    /\ UNCHANGED <<mainVars, periodVars, responses, requests, limit, snapshot, aiVars, renderVars, indexVars>>

TopIssuesReturn ==
    /\ sub["issues"] = Pending
    /\ sub' = [sub EXCEPT !["issues"] =
                  getTopIssues(githubRequest(responses["searchIssues"]), limit)]
    /\ UNCHANGED <<mainVars, periodVars, responses, requests, limit, snapshot, aiVars, renderVars, indexVars>>

Settled(o) == o # None /\ o.state \in {"fulfilled", "rejected"}

\* The record getWeeklyData returns once Promise.all has resolved.
makeSnapshot(s, p) ==
    [info |-> s["info"].value,
     commits |-> [total |-> s["commits"].value],
     releases |-> s["releases"].value,
     prs |-> s["prs"].value,
     issues |-> [total |-> s["issues"].value.totalCount,
                 issues |-> s["issues"].value.topIssues],
     period |-> p]

\* await Promise.all([...]) settles: it rejects when a fetcher rejected.
Join ==
    /\ snapshot = None
    /\ \A f \in Fetchers : Settled(sub[f])
    /\ snapshot' = IF \E f \in Fetchers : sub[f].state = "rejected"
                   THEN Rejected
                   ELSE Fulfilled(makeSnapshot(sub, period))
    /\ UNCHANGED <<mainVars, periodVars, responses, requests, sub, limit, aiVars, renderVars, indexVars>>

NextFetch ==
    \/ Dispatch
    \/ RepoInfoReturns
    \/ CommitCountReturns
    \/ ReleasesReturn
    \/ PullRequestsReturn
    \/ TopIssuesReturn
    \/ Join

SpecFetch == InitFetch /\ [][NextFetch]_vars

(* C2: getCommitCount returns the search's count when the search succeeds;
   when the search errors it requests the commit listing and returns the
   number of commits on that page; the listing is requested only then. *)
C2_FallbackOnSearchError ==
    Settled(sub["commits"]) =>
        /\ sub["commits"].state = "fulfilled"
        /\ responses["searchCommits"].kind = "ok" =>
              /\ sub["commits"].value = responses["searchCommits"].body.total_count
              /\ \A i \in 1..Len(requests) : requests[i] # "listCommits"
        /\ responses["searchCommits"] \in Failures =>
              /\ \E i \in 1..Len(requests) : requests[i] = "listCommits"
              /\ responses["listCommits"].kind = "ok" =>
                    sub["commits"].value = Len(responses["listCommits"].body)

(* C3: whichever of the five sub-queries fail, getWeeklyData resolves: a
   failed sub-query's field holds its default (info null, commits.total 0,
   releases empty, prs {0, 0, 0, []}, issues {0, []}), a successful one's
   field holds what was fetched. *)
C3_PartialFailureTolerated ==
    snapshot # None =>
        /\ snapshot.state = "fulfilled"
        /\ LET v == snapshot.value
               Failed(e) == responses[e] \in Failures
               body(e) == responses[e].body
           IN  /\ IF Failed("repo") THEN v.info = None
                  ELSE /\ v.info.stars = body("repo").stargazers_count
                       /\ v.info.forks = body("repo").forks_count
                       /\ v.info.openIssues = body("repo").open_issues_count
               /\ IF Failed("searchCommits") THEN v.commits.total = 0
                  ELSE v.commits.total = body("searchCommits").total_count
               /\ IF Failed("releases") THEN v.releases = <<>>
                  ELSE /\ Len(v.releases) <= Len(body("releases"))
                       /\ (Len(body("releases")) > 0 =>
                              /\ Len(v.releases) = 1
                              /\ v.releases[1].publishedAt = period.start)
               /\ IF Failed("searchPRs") THEN v.prs = NoPullRequests
                  ELSE /\ v.prs.total = body("searchPRs").total_count
                       /\ Len(v.prs.prs) = Len(body("searchPRs").items)
                       /\ \A i \in 1..Len(v.prs.prs) :
                              v.prs.prs[i].number = body("searchPRs").items[i].number
                       /\ v.prs.open = Cardinality({i \in 1..Len(v.prs.prs) :
                              body("searchPRs").items[i].state = "open"})
                       /\ v.prs.merged = Cardinality({i \in 1..Len(v.prs.prs) :
                              body("searchPRs").items[i].merged_at # None})
               /\ IF Failed("searchIssues") THEN v.issues = [total |-> 0, issues |-> <<>>]
                  ELSE /\ v.issues.total = body("searchIssues").total_count
                       /\ Len(v.issues.issues) = Cardinality({i \in 1..Len(body("searchIssues").items) :
                              ~ body("searchIssues").items[i].pull_request})

C3_Witness ==
    /\ snapshot # None
    /\ responses["repo"] = HttpError
    /\ responses["releases"] = NetworkError
    /\ responses["searchIssues"] = HttpError
    /\ responses["searchCommits"].kind = "ok"
    /\ responses["searchPRs"].kind = "ok"
    /\ snapshot.value.commits.total = 3
    /\ snapshot.value.prs.total = 2
    /\ snapshot.value.info = None

----------------------------------------------------------------------------
(* analyzeWithAI: the choice of the backend and the call *)

\* CONFIG.ai.providers, in priority order
Providers == <<"dify", "qwen", "openai", "claude">>

\* An environment variable: unset (undefined), or set to a string of characters.
Key(chars) == [set |-> TRUE, value |-> chars]

\* s.startsWith(prefix)
StartsWith(s, prefix) ==
    Len(s) >= Len(prefix) /\ SubSeq(s, 1, Len(prefix)) = prefix

\* apiKey && apiKey.length > 0
NonEmpty(k) == k.set /\ Len(k.value) > 0

\* The predicate of providers.find(...)
IsAvailable(name, e) ==
    CASE name = "dify"   -> NonEmpty(e.dify)
      [] name = "qwen"   -> NonEmpty(e.qwen)
      [] name = "openai" -> e.openai.set /\ StartsWith(e.openai.value, <<"s", "k", "-">>)
      [] name = "claude" -> e.claude.set /\
                            StartsWith(e.claude.value, <<"s", "k", "-", "a", "n", "t", "-">>)
      [] OTHER -> FALSE

\* Array.prototype.find over s from index i: the first available provider, or "none".
RECURSIVE FindFrom(_, _, _)
FindFrom(s, e, i) ==
    IF i > Len(s) THEN "none"
    ELSE IF IsAvailable(s[i], e) THEN s[i]
    ELSE FindFrom(s, e, i + 1)

\* A mutant of availableProvider: the last available provider is taken.
availableProviderLast(e) == FindFrom(<<"claude", "openai", "qwen", "dify">>, e, 1)

\* const availableProvider = CONFIG.ai.providers.find(...)
availableProvider(e) == FindFrom(Providers, e, 1)

\* The providers whose branch of the try block sends a request.
Backends == {"dify", "qwen", "openai"}

AiText(t) == [text |-> t]

\* What a backend answers: a failure, or JSON with or without the result text.
AiResponses == Failures \cup {Ok([hasText |-> b]) : b \in BOOLEAN}

\* A mutant of analyzeResult: after a failure the text of another backend is
\* returned.
analyzeResultFallsBack(name, resp) ==
    IF resp.kind # "ok" THEN AiText("fallback")
    ELSE IF resp.body.hasText THEN AiText("summary")
    ELSE IF name = "openai" THEN None
    ELSE AiText("placeholder")

\* What analyzeWithAI returns once the backend `name` has answered: null after a
\* network error (caught) or a non-ok status; the text; for dify and qwen a
\* placeholder when the JSON holds no text; for openai null then (the TypeError
\* is caught).
analyzeResult(name, resp) ==
    IF resp.kind # "ok" THEN None
    ELSE IF resp.body.hasText THEN AiText("summary")
    ELSE IF name = "openai" THEN None
    ELSE AiText("placeholder")

\* analyzeWithAI up to its first await: no provider, or one without a branch
\* (claude), returns null at once; otherwise the request is sent.
AnalyzeWithAICalled ==
    LET name == availableProvider(env)
    IN  /\ aiSelected' = name
        /\ IF name \in Backends
           THEN /\ aiContacted' = Append(aiContacted, name)
                /\ aiPending' = name
                /\ aiResults' = aiResults
           ELSE /\ aiContacted' = aiContacted
                /\ aiPending' = "none"
                /\ aiResults' = Append(aiResults, None)
        /\ UNCHANGED env

\* The awaited backend answers and analyzeWithAI returns.
BackendAnswers(resp) ==
    /\ aiResults' = Append(aiResults, analyzeResult(aiPending, resp))
    /\ aiPending' = "none"
    /\ UNCHANGED <<env, aiSelected, aiContacted>>

----------------------------------------------------------------------------
(* SpecAI: one call of analyzeWithAI under every combination of credentials *)

KeyValues ==
    {Unset, Key(<<>>), Key(<<"k", "e", "y">>), Key(<<"s", "k">>),
     Key(<<"s", "k", "-", "1">>), Key(<<"s", "k", "-", "a", "n", "t">>),
     Key(<<"s", "k", "-", "a", "n", "t", "-", "1">>)}

InitAI ==
    /\ MainIdle
    /\ weekNumber = 1
    /\ period = getWeekPeriod(1)
    /\ prevPeriod = None
    /\ FetchIdle /\ RenderIdle /\ IndexIdle
    /\ env \in [dify : KeyValues, qwen : KeyValues, openai : KeyValues, claude : KeyValues]
    /\ aiSelected = "unselected"
    /\ aiPending = "none"
    /\ aiContacted = <<>>
    /\ aiResults = <<>>

CallAnalyzeWithAI ==
    /\ aiSelected = "unselected"
    /\ AnalyzeWithAICalled
    /\ UNCHANGED <<mainVars, periodVars, fetchVars, renderVars, indexVars>>

AnalyzeWithAIReturns ==
    /\ aiPending # "none"
    /\ \E resp \in AiResponses : BackendAnswers(resp)
    /\ UNCHANGED <<mainVars, periodVars, fetchVars, renderVars, indexVars>>

NextAI == CallAnalyzeWithAI \/ AnalyzeWithAIReturns

SpecAI == InitAI /\ [][NextAI]_vars

(* C10: analyzeWithAI selects the first of dify, qwen, openai, claude whose
   credential is present and well-formed (non-empty for dify and qwen,
   starting with 'sk-' for openai, with 'sk-ant-' for claude); when none
   qualifies it returns null without contacting any backend. *)
C10_FirstAvailableProvider ==
    aiSelected # "unselected" =>
        LET difyOk == env.dify \notin {Unset, Key(<<>>)}
            qwenOk == env.qwen \notin {Unset, Key(<<>>)}
            openaiOk == env.openai \in {Key(<<"s", "k", "-", "1">>),
                                        Key(<<"s", "k", "-", "a", "n", "t">>),
                                        Key(<<"s", "k", "-", "a", "n", "t", "-", "1">>)}
            claudeOk == env.claude = Key(<<"s", "k", "-", "a", "n", "t", "-", "1">>)
        IN  /\ aiSelected = "dify" <=> difyOk
            /\ aiSelected = "qwen" <=> (~ difyOk /\ qwenOk)
            /\ aiSelected = "openai" <=> (~ difyOk /\ ~ qwenOk /\ openaiOk)
            /\ aiSelected = "claude" <=> (~ difyOk /\ ~ qwenOk /\ ~ openaiOk /\ claudeOk)
            /\ aiSelected = "none" <=> (~ difyOk /\ ~ qwenOk /\ ~ openaiOk /\ ~ claudeOk)
            /\ aiSelected = "none" =>
                  /\ aiResults = <<None>>
                  /\ aiContacted = <<>>
                  /\ aiPending = "none"
            /\ \A i \in 1..Len(aiContacted) : aiContacted[i] = aiSelected

C10_Witness ==
    /\ aiSelected = "openai"
    /\ env.dify = Key(<<>>)
    /\ env.qwen = Unset
    /\ env.claude = Key(<<"s", "k", "-", "a", "n", "t", "-", "1">>)
    /\ aiContacted = <<"openai">>
    /\ aiResults = <<AiText("summary")>>

----------------------------------------------------------------------------
(* generateWeeklyContent: the document as the sequence of its blocks *)

RECURSIVE Concat(_)
\* The concatenation of a sequence of sequences.
Concat(ss) == IF ss = <<>> THEN <<>> ELSE Head(ss) \o Concat(Tail(ss))

RECURSIVE SumSeq(_)
\* numbers.reduce((acc, x) => acc + x, 0)
SumSeq(s) == IF s = <<>> THEN 0 ELSE Head(s) + SumSeq(Tail(s))

\* if (release.body): null and '' are falsy
HasBody(release) == release.body # None /\ release.body.len > 0

\* The analyzeWithAI calls of one render, in the order they are made.
aiCallSites(data) ==
    Concat([k \in 1..Len(data) |->
               LET withBody == {j \in 1..Len(data[k].releases) : HasBody(data[k].releases[j])}
               IN  Concat([j \in 1..Len(data[k].releases) |->
                              IF j \in withBody
                              THEN <<[kind |-> "releases", k |-> k, j |-> j]>> ELSE <<>>])])
    \o
    Concat([k \in 1..Len(data) |->
               (IF data[k].prs.total > 0
                THEN <<[kind |-> "prs", k |-> k, j |-> 0]>> ELSE <<>>)
               \o
               (IF data[k].issues.total > 0
                THEN <<[kind |-> "issues", k |-> k, j |-> 0]>> ELSE <<>>)])

\* The block of the AI text of call site (kind, k, j): none when the call
\* returned null.
aiBlock(data, results, kind, k, j) ==
    LET sites == aiCallSites(data)
        i == CHOOSE n \in 1..Len(sites) : sites[n] = [kind |-> kind, k |-> k, j |-> j]
    IN  IF results[i] = None THEN <<>>
        ELSE <<[type |-> "ai", kind |-> kind, k |-> k, text |-> results[i].text]>>

\* The row of the overview table for one snapshot.
tableRow(d) ==
    [type |-> "row", repo |-> d.repo, commits |-> d.commits.total,
     prs |-> d.prs.total, issues |-> d.issues.total, releases |-> Len(d.releases)]

\* release.body.substring(0, 200) + (release.body.length > 200 ? '...' : '')
shortBody(body) == [len |-> Min(body.len, 200), ellipsis |-> body.len > 200]

\* The release section of one snapshot.
releaseBlocks(data, results, k) ==
    LET rels == data[k].releases
    IN  IF Len(rels) = 0 THEN <<>>
        ELSE <<[type |-> "releaseHeading", repo |-> data[k].repo]>> \o
             Concat([j \in 1..Len(rels) |->
                 <<[type |-> "release", tagName |-> rels[j].tagName]>> \o
                 (IF HasBody(rels[j])
                  THEN aiBlock(data, results, "releases", k, j) \o
                       <<[type |-> "releaseBody", excerpt |-> shortBody(rels[j].body)]>>
                  ELSE <<>>) \o
                 <<[type |-> "releaseLink", tagName |-> rels[j].tagName]>>])

\* The analysis section of one snapshot.
analysisBlocks(data, results, k) ==
    LET d == data[k]
    IN  IF d.prs.total > 0 \/ d.issues.total > 0
        THEN <<[type |-> "repoHeading", repo |-> d.repo]>> \o
             (IF d.prs.total > 0
              THEN aiBlock(data, results, "prs", k, 0) \o
                   (IF Len(d.prs.prs) > 0
                    THEN <<[type |-> "prList", total |-> d.prs.total, merged |-> d.prs.merged,
                            prs |-> Slice(d.prs.prs, 10)]>>
                    ELSE <<>>)
              ELSE <<>>) \o
             (IF d.issues.total > 0
              THEN <<[type |-> "issueList", issues |-> d.issues.issues]>> \o
                   aiBlock(data, results, "issues", k, 0)
              ELSE <<>>)
        ELSE <<>>

\* A mutant of closingTotals: the pull requests and issues listed are counted,
\* not the totals.
closingTotalsListed(data, endStr) ==
    [type |-> "totals",
     commits |-> SumSeq([k \in 1..Len(data) |-> data[k].commits.total]),
     prs |-> SumSeq([k \in 1..Len(data) |-> Len(data[k].prs.prs)]),
     issues |-> SumSeq([k \in 1..Len(data) |-> Len(data[k].issues.issues)]),
     endStr |-> endStr]

\* The closing section: the three reduce(...) sums.
closingTotals(data, endStr) ==
    [type |-> "totals",
     commits |-> SumSeq([k \in 1..Len(data) |-> data[k].commits.total]),
     prs |-> SumSeq([k \in 1..Len(data) |-> data[k].prs.total]),
     issues |-> SumSeq([k \in 1..Len(data) |-> data[k].issues.total]),
     endStr |-> endStr]

\* The document, given what each analyzeWithAI call returned.
renderContent(data, results, week, startDate, endDate, zone) ==
    <<[type |-> "title", weekNumber |-> week,
       startStr |-> formatDate(startDate, zone), endStr |-> formatDate(endDate, zone)]>> \o
    [k \in 1..Len(data) |-> tableRow(data[k])] \o
    <<[type |-> "updatesHeading"]>> \o
    Concat([k \in 1..Len(data) |-> releaseBlocks(data, results, k)]) \o
    (IF \E k \in 1..Len(data) : Len(data[k].releases) > 0
     THEN <<>> ELSE <<[type |-> "noReleases"]>>) \o
    <<[type |-> "analysisHeading"]>> \o
    Concat([k \in 1..Len(data) |-> analysisBlocks(data, results, k)]) \o
    <<closingTotals(data, formatDate(endDate, zone))>>

\* generateWeeklyContent runs on from `results`, the answers so far, to its next
\* await of a backend or to its end: a call that selects no backend returns
\* null at once.
RECURSIVE runRender(_, _, _)
runRender(results, contacted, selected) ==
    IF Len(results) = Len(aiCallSites(weeklyData))
    THEN [results |-> results, contacted |-> contacted, selected |-> selected,
          pending |-> "none", done |-> TRUE]
    ELSE LET name == availableProvider(env)
         IN  IF name \in Backends
             THEN [results |-> results, contacted |-> Append(contacted, name),
                   selected |-> name, pending |-> name, done |-> FALSE]
             ELSE runRender(Append(results, None), contacted, name)

\* The effect of a run of generateWeeklyContent up to its next await.
RenderAdvances(run) ==
    /\ aiResults' = run.results
    /\ aiContacted' = run.contacted
    /\ aiSelected' = run.selected
    /\ aiPending' = run.pending
    /\ content' = IF run.done
                  THEN renderContent(weeklyData, run.results, weekNumber,
                                     period.start, period.end, tz)
                  ELSE None

----------------------------------------------------------------------------
(* SpecRender: generateWeeklyContent on every short sequence of snapshots *)

TimeZones == {-8, 0, 8}

SamplePR(n, state, mergedAt) == [number |-> n, state |-> state, mergedAt |-> mergedAt]

SampleIssue(n, reactions) == [number |-> n, state |-> "open", reactions |-> reactions]

SampleRelease(tag, body) ==
    [tagName |-> tag, publishedAt |-> Date(BaseDateDay, 0), draft |-> FALSE, body |-> body]

\* Snapshots as getWeeklyData returns them: an idle repository; one with 3
\* commits, 1 merged pull request and 2 issues; one with more pull requests
\* than the page lists and a release with a long body; one with a release
\* without a body and one with a short body.
SampleSnapshots ==
    {[repo |-> "idle", info |-> None, commits |-> [total |-> 0], releases |-> <<>>,
      prs |-> NoPullRequests, issues |-> [total |-> 0, issues |-> <<>>]],
     [repo |-> "openclaw", info |-> None, commits |-> [total |-> 3], releases |-> <<>>,
      prs |-> [total |-> 1, merged |-> 1, open |-> 0,
               prs |-> <<SamplePR(11, "closed", Date(BaseDateDay, 0))>>],
      issues |-> [total |-> 2, issues |-> <<SampleIssue(21, 5), SampleIssue(22, 0)>>]],
     [repo |-> "docs", info |-> None, commits |-> [total |-> 1],
      releases |-> <<SampleRelease(1, [len |-> 250])>>,
      prs |-> [total |-> 3, merged |-> 0, open |-> 1, prs |-> <<SamplePR(12, "open", None)>>],
      issues |-> [total |-> 0, issues |-> <<>>]],
     [repo |-> "site", info |-> None, commits |-> [total |-> 2],
      releases |-> <<SampleRelease(2, None), SampleRelease(3, [len |-> 150])>>,
      prs |-> NoPullRequests,
      issues |-> [total |-> 4, issues |-> <<SampleIssue(23, 1)>>]]}

SampleEnvs ==
    {[dify |-> d, qwen |-> Unset, openai |-> o, claude |-> c] :
        d \in {Unset, Key(<<"k", "e", "y">>)},
        o \in {Unset, Key(<<"s", "k", "-", "1">>)},
        c \in {Key(<<"s", "k", "-", "a", "n", "t", "-", "1">>)}}

InitRender ==
    /\ MainIdle
    /\ weekNumber \in {1, 5}
    /\ period = getWeekPeriod(weekNumber)
    /\ prevPeriod = None
    /\ FetchIdle
    /\ env \in SampleEnvs
    /\ aiSelected = "unselected"
    /\ aiPending = "none"
    /\ aiContacted = <<>>
    /\ aiResults = <<>>
    /\ weeklyData \in SeqsUpTo(SampleSnapshots, MaxRepos)
    /\ content = None
    /\ tz \in TimeZones
    /\ files = {}
    /\ configFile = None
    /\ indexFile = None
    /\ writes = <<>>
    /\ log = <<>>

\* generateWeeklyContent is called and runs to its first await or to its end.
CallGenerateWeeklyContent ==
    /\ content = None
    /\ aiPending = "none"
    /\ aiResults = <<>>
    /\ aiSelected = "unselected"
    /\ RenderAdvances(runRender(<<>>, <<>>, "unselected"))
    /\ UNCHANGED <<mainVars, periodVars, fetchVars, env, weeklyData, indexVars>>

\* The awaited backend answers; generateWeeklyContent runs on.
RenderResumesWith(resp) ==
    /\ aiPending # "none"
    /\ RenderAdvances(runRender(Append(aiResults, analyzeResult(aiPending, resp)),
                                aiContacted, aiSelected))
    /\ UNCHANGED <<mainVars, periodVars, fetchVars, env, weeklyData, indexVars>>

RenderResumes == \E resp \in AiResponses : RenderResumesWith(resp)

NextRender == CallGenerateWeeklyContent \/ RenderResumes

SpecRender == InitRender /\ [][NextRender]_vars

(* C6: the three totals of the closing section (commits, PRs, issues) are the
   sums over all snapshots of commits.total, prs.total and issues.total, the
   values shown in the rows of the summary table. *)
C6_ClosingTotalsAreSums ==
    content # None =>
        LET n == Len(weeklyData)
            rows == [k \in 1..n |-> content[1 + k]]
            totals == content[Len(content)]
            commitSum[k \in 0..n] == IF k = 0 THEN 0 ELSE commitSum[k - 1] + rows[k].commits
            prSum[k \in 0..n] == IF k = 0 THEN 0 ELSE prSum[k - 1] + rows[k].prs
            issueSum[k \in 0..n] == IF k = 0 THEN 0 ELSE issueSum[k - 1] + rows[k].issues
        IN  /\ totals.type = "totals"
            /\ \A k \in 1..n :
                  /\ rows[k].type = "row"
                  /\ rows[k].commits = weeklyData[k].commits.total
                  /\ rows[k].prs = weeklyData[k].prs.total
                  /\ rows[k].issues = weeklyData[k].issues.total
            /\ Cardinality({i \in 1..Len(content) : content[i].type = "row"}) = n
            /\ totals.commits = commitSum[n]
            /\ totals.prs = prSum[n]
            /\ totals.issues = issueSum[n]

C6_Witness ==
    /\ content # None
    /\ Len(weeklyData) = 2
    /\ weeklyData[1].repo = "docs"
    /\ weeklyData[2].repo = "openclaw"
    /\ content[Len(content)].commits = 4
    /\ content[Len(content)].prs = 4
    /\ content[Len(content)].issues = 2
    /\ \E i \in 1..Len(content) : content[i].type = "ai"

IsAiBlock(block) == block.type = "ai"
IsNotAiBlock(block) == block.type # "ai"
IsText(result) == result # None

\* The document of a render in which every analyzeWithAI call returned null,
\* as when no backend is available.
DocumentWithoutAI ==
    renderContent(weeklyData, [i \in 1..Len(aiCallSites(weeklyData)) |-> None],
                  weekNumber, period.start, period.end, tz)

(* C11: when the selected backend fails (the request throws, or the status
   is not ok) analyzeWithAI returns null, as when no backend is available,
   and no other backend is contacted for that call; whatever the backends
   answer, generateWeeklyContent returns a document that is the document
   without AI with one AI block added for each call that returned a text. *)
C11_AiFailureIsNotFatal ==
    /\ [][\A resp \in Failures :
              RenderResumesWith(resp) =>
                  /\ aiResults'[Len(aiResults) + 1] = None
                  /\ Len(aiContacted') <= Len(aiContacted) + 1
                  /\ \A i \in 1..Len(aiContacted') : aiContacted'[i] = availableProvider(env)
                  /\ Len(aiContacted') <= Len(aiResults')
                         + (IF aiPending' = "none" THEN 0 ELSE 1)]_vars
    /\ []((aiSelected # "unselected" /\ aiPending = "none") => content # None)
    /\ [](content # None =>
             /\ Len(aiResults) = Len(aiCallSites(weeklyData))
             /\ SelectSeq(content, IsNotAiBlock) = DocumentWithoutAI
             /\ Len(SelectSeq(content, IsAiBlock)) = Len(SelectSeq(aiResults, IsText)))

\* A render with three analyzeWithAI calls, all sent to dify though openai
\* and claude are available too: one failed, one answered, and
\* the document has been returned.
C11_Witness ==
    /\ content # None
    /\ aiSelected = "dify"
    /\ IsAvailable("openai", env) /\ IsAvailable("claude", env)
    /\ Len(aiResults) >= 3
    /\ \A i \in 1..Len(aiContacted) : aiContacted[i] = "dify"
    /\ Len(aiContacted) = Len(aiResults)
    /\ \E i \in 1..Len(aiResults) : aiResults[i] = None
    /\ \E i \in 1..Len(aiResults) : aiResults[i] # None
    /\ Len(SelectSeq(content, IsAiBlock)) < Len(aiResults)

----------------------------------------------------------------------------
(* The index regenerators: updateVitePressConfig and updateIndexPage.

   A string is the sequence of its characters.  The text of config.js and of
   index.md is the sequence of its pieces: a piece is a stretch of other text,
   or one of the patterns the regenerators search for (the sidebar array, the
   navigation link, the two heading markers), or a line they generate. *)

DigitChars == <<"0", "1", "2", "3", "4", "5", "6", "7", "8", "9">>

IsDigit(c) == \E v \in 1..10 : DigitChars[v] = c

DigitValue(c) == (CHOOSE v \in 1..10 : DigitChars[v] = c) - 1

RECURSIVE ToDigits(_)
\* n.toString() for n >= 0
ToDigits(n) ==
    IF n < 10 THEN <<DigitChars[n + 1]>>
    ELSE ToDigits(n \div 10) \o <<DigitChars[(n % 10) + 1]>>

\* str.padStart(2, '0')
padStart2(str) ==
    IF Len(str) = 0 THEN <<"0", "0">>
    ELSE IF Len(str) = 1 THEN <<"0">> \o str
    ELSE str

DotMd == <<".", "m", "d">>

\* `${weekNumber.toString().padStart(2, '0')}.md`
weekFileName(w) == padStart2(ToDigits(w)) \o DotMd

\* file.match(/^\d{2}\.md$/)
matchesWeekly(file) ==
    /\ Len(file) = 5
    /\ IsDigit(file[1]) /\ IsDigit(file[2])
    /\ SubSeq(file, 3, 5) = DotMd

\* parseInt(file.replace('.md', '')) of a file that matches
parseWeek(file) == DigitValue(file[1]) * 10 + DigitValue(file[2])

RECURSIVE Ascending(_)
\* The numbers of a set in ascending order.
Ascending(S) ==
    IF S = {} THEN <<>>
    ELSE LET lo == CHOOSE x \in S : \A y \in S : x <= y
         IN  <<lo>> \o Ascending(S \ {lo})

\* The week numbers of the weekly files, in the order readdir lists them (by
\* name, which for two-digit names is by number).
weeklyFiles(dir) == Ascending({parseWeek(f) : f \in {g \in dir : matchesWeekly(g)}})

\* `${end.getFullYear()}年${end.getMonth() + 1}月`, kept as its two numbers
monthOfDate(local) == [year |-> local.year, month |-> local.month]

monthKey(t, zone) == monthOfDate(LocalDate(t, zone))

\* A mutant of weeklyItem: the month is that of the start of the period.
weeklyItemByStart(w, start, end, zone) ==
    [weekNumber |-> w,
     title |-> [week |-> w, start |-> formatDate(start, zone), end |-> formatDate(end, zone)],
     link |-> <<"/", "d", "o", "c", "s", "/">> \o padStart2(ToDigits(w)),
     month |-> monthKey(start, zone)]

\* The entry pushed to weeklyItems for week w, whose period is start..end.
weeklyItem(w, start, end, zone) ==
    [weekNumber |-> w,
     title |-> [week |-> w, start |-> formatDate(start, zone), end |-> formatDate(end, zone)],
     link |-> <<"/", "d", "o", "c", "s", "/">> \o padStart2(ToDigits(w)),
     month |-> monthKey(end, zone)]

itemsOfWeeks(weeks, zone) ==
    [i \in 1..Len(weeks) |->
        weeklyItem(weeks[i], getWeekPeriod(weeks[i]).start, getWeekPeriod(weeks[i]).end, zone)]

weeklyItems(dir, zone) == itemsOfWeeks(weeklyFiles(dir), zone)

RECURSIVE Distinct(_)
\* Object.keys(groupedByMonth): the months in the order they first appear.
Distinct(s) ==
    IF s = <<>> THEN <<>>
    ELSE LET rest == Distinct(SubSeq(s, 1, Len(s) - 1))
         IN  IF \E i \in 1..Len(rest) : rest[i] = s[Len(s)]
             THEN rest ELSE Append(rest, s[Len(s)])

\* groupedByMonth[month], sorted by descending week number
sortByWeekDesc(group) == SortDesc(group, [i \in 1..Len(group) |-> group[i].weekNumber])

monthGroup(items, month) ==
    LET InMonth(item) == item.month = month
    IN  sortByWeekDesc(SelectSeq(items, InMonth))

\* new Date(key.replace('年', '-').replace('月', '-01')), in minutes since
\* 1970: 'YYYY-MM-01' is an ISO date, UTC midnight; 'YYYY-M-01' is not, and
\* is read as local midnight.
parseMonthMinutes(month, zone) ==
    LET days == DaysFromCivil(month.year, month.month, 1)
    IN  IF month.month >= 10 THEN days * 1440 ELSE days * 1440 - zone * 60

\* A mutant of sortedMonths: the months stay in the order they first appear.
sortedMonthsUnsorted(items, zone) ==
    Distinct([i \in 1..Len(items) |-> items[i].month])

\* Object.keys(groupedByMonth).sort((a, b) => dateB - dateA)
sortMonthsDesc(months, zone) ==
    SortDesc(months, [i \in 1..Len(months) |-> parseMonthMinutes(months[i], zone)])

sortedMonths(items, zone) ==
    sortMonthsDesc(Distinct([i \in 1..Len(items) |-> items[i].month]), zone)

\* The months, newest first, each with its entries, newest first.
groupEntries(group) ==
    [j \in 1..Len(group) |-> [text |-> group[j].title, link |-> group[j].link]]

groupsOf(items, months) ==
    [i \in 1..Len(months) |->
        [text |-> months[i], items |-> groupEntries(monthGroup(items, months[i]))]]

groupsOfItems(items, zone) == groupsOf(items, sortedMonths(items, zone))

monthGroups(dir, zone) == groupsOfItems(weeklyItems(dir, zone), zone)

Text(n) == [t |-> "text", id |-> n]
\* sidebar: [ ... ],
SidebarPiece(groups) == [t |-> "sidebar", groups |-> groups]
\* text: '周报列表', link: '...'
NavPiece(link) == [t |-> "nav", link |-> link]
\* ## 📚 周报列表
StartMarker == [t |-> "startMarker"]
\* ## 🚀 项目特色
EndMarker == [t |-> "endMarker"]

\* text.indexOf(piece): the first place of a piece for which the type is ty, 0 for none
IndexOfType(text, ty) ==
    IF \E i \in 1..Len(text) : text[i].t = ty
    THEN CHOOSE i \in 1..Len(text) : text[i].t = ty /\ \A j \in 1..(i - 1) : text[j].t # ty
    ELSE 0

\* text.replace(regex, piece): the first match is replaced, no match changes nothing
ReplaceFirst(text, ty, piece) ==
    LET i == IndexOfType(text, ty)
    IN  IF i = 0 THEN text ELSE [text EXCEPT ![i] = piece]

\* Math.max(...weeks) and the link made of it; Math.max() is -Infinity
latestLink(items) ==
    IF Len(items) = 0 THEN <<"/", "d", "o", "c", "s", "/", "-Infinity">>
    ELSE LET latest == CHOOSE w \in {items[i].weekNumber : i \in 1..Len(items)} :
                           \A i \in 1..Len(items) : items[i].weekNumber <= w
         IN  <<"/", "d", "o", "c", "s", "/">> \o padStart2(ToDigits(latest))

\* updatedConfig: both replacements applied to the text read
updatedConfig(text, dir, zone) ==
    ReplaceFirst(ReplaceFirst(text, "sidebar", SidebarPiece(monthGroups(dir, zone))),
                 "nav", NavPiece(latestLink(weeklyItems(dir, zone))))

\* updateVitePressConfig: readFile throws when the file is missing and the
\* catch block logs the warning; otherwise the text is rewritten, found or not.
ConfigWritten(updated) ==
    /\ configFile' = [text |-> updated]
    /\ writes' = Append(writes, [path |-> "config.js", text |-> updated])
    /\ log' = Append(log, "sidebarUpdated")

ConfigRegenerated(dir) ==
    IF configFile = None
    THEN /\ log' = Append(log, "sidebarWarning")
         /\ UNCHANGED <<configFile, writes>>
    ELSE ConfigWritten(updatedConfig(configFile.text, dir, tz))

UpdateVitePressConfig ==
    /\ Len(log) < MaxIndexRuns
    /\ ConfigRegenerated(files)
    /\ UNCHANGED <<mainVars, periodVars, fetchVars, aiVars, renderVars, tz, files, indexFile>>

\* weeklyListContent
listOfGroups(groups) ==
    <<StartMarker>> \o
    Concat([i \in 1..Len(groups) |->
               <<[t |-> "month", text |-> groups[i].text]>> \o
               [j \in 1..Len(groups[i].items) |->
                   [t |-> "entry", text |-> groups[i].items[j].text,
                    link |-> groups[i].items[j].link]]])

weeklyListContent(dir, zone) == listOfGroups(monthGroups(dir, zone))

\* text.substring(from): a negative index counts as 0
SubstringFrom(text, i) == SubSeq(text, IF i < 1 THEN 1 ELSE i, Len(text))

\* A mutant of patchIndex: one marker is enough
patchIndexEitherMarker(text, list) ==
    LET startIndex == IndexOfType(text, "startMarker")
        endIndex == IndexOfType(text, "endMarker")
    IN  IF startIndex # 0 \/ endIndex # 0
        THEN [found |-> TRUE,
              text |-> SubSeq(text, 1, startIndex - 1) \o list \o SubstringFrom(text, endIndex)]
        ELSE [found |-> FALSE, text |-> text]

\* The span from the start marker to the end marker replaced by the list, when
\* both markers are found.
patchIndex(text, list) ==
    LET startIndex == IndexOfType(text, "startMarker")
        endIndex == IndexOfType(text, "endMarker")
    IN  IF startIndex # 0 /\ endIndex # 0
        THEN [found |-> TRUE,
              text |-> SubSeq(text, 1, startIndex - 1) \o list \o SubstringFrom(text, endIndex)]
        ELSE [found |-> FALSE, text |-> text]

\* updateIndexPage
IndexPatched(patched) ==
    IF patched.found
    THEN /\ indexFile' = [text |-> patched.text]
         /\ writes' = Append(writes, [path |-> "index.md", text |-> patched.text])
         /\ log' = Append(log, "indexUpdated")
    ELSE /\ log' = Append(log, "indexMarkersMissing")
         /\ UNCHANGED <<indexFile, writes>>

IndexRegenerated(dir) ==
    IF indexFile = None
    THEN /\ log' = Append(log, "indexWarning")
         /\ UNCHANGED <<indexFile, writes>>
    ELSE IndexPatched(patchIndex(indexFile.text, weeklyListContent(dir, tz)))

UpdateIndexPage ==
    /\ Len(log) < MaxIndexRuns
    /\ IndexRegenerated(files)
    /\ UNCHANGED <<mainVars, periodVars, fetchVars, aiVars, renderVars, tz, files, configFile>>

----------------------------------------------------------------------------
(* SpecIndex: the regenerators on every small docs/ directory, and on every
   small config.js and index.md *)

DocWeeks == (0..MaxDocWeek) \cup {22, 40, 100}

\* A sidebar left by an earlier run.
StaleSidebar == SidebarPiece(<<>>)
StaleNav == NavPiece(<<"/", "d", "o", "c", "s", "/", "0", "5">>)

ConfigTexts ==
    {<<Text(1), StaleNav, Text(2), StaleSidebar, Text(3)>>,
     <<Text(1), StaleNav, Text(2)>>,
     <<Text(1), StaleSidebar, Text(2)>>,
     <<Text(1)>>,
     <<StaleSidebar, StaleNav, StaleSidebar>>}

IndexPieces == {Text(1), StartMarker, EndMarker}

\* Every docs/ directory, with both files holding their anchors.
InitDocs ==
    /\ files \in SUBSET {weekFileName(w) : w \in DocWeeks}
    /\ configFile = [text |-> <<Text(1), StaleNav, Text(2), StaleSidebar, Text(3)>>]
    /\ indexFile = [text |-> <<Text(1), StartMarker, Text(2), EndMarker, Text(3)>>]

\* A small docs/ directory, with every small text for the two files.
InitAnchors ==
    /\ files \in SUBSET {weekFileName(1), weekFileName(5)}
    /\ configFile \in {None} \cup {[text |-> c] : c \in ConfigTexts}
    /\ indexFile \in {None} \cup {[text |-> x] : x \in SeqsUpTo(IndexPieces, MaxIndexTokens)}

InitIndex ==
    /\ MainIdle
    /\ weekNumber = 1
    /\ period = getWeekPeriod(1)
    /\ prevPeriod = None
    /\ FetchIdle /\ AiIdle /\ RenderIdle
    /\ tz \in TimeZones
    /\ (InitDocs \/ InitAnchors)
    /\ writes = <<>>
    /\ log = <<>>

NextIndex == UpdateVitePressConfig \/ UpdateIndexPage

SpecIndex == InitIndex /\ [][NextIndex]_vars

----------------------------------------------------------------------------
(* The homepage and the config under missing anchors *)

MarkersMissing(text) ==
    IndexOfType(text, "startMarker") = 0 \/ IndexOfType(text, "endMarker") = 0

\* C7: when index.md lacks the start marker or the end marker, a run of
\* updateIndexPage writes nothing, leaves the file as it was, and ends by
\* logging the markers-missing warning.
C7_IndexUntouchedWithoutMarkers ==
    [][(UpdateIndexPage /\ indexFile # None /\ MarkersMissing(indexFile.text))
          => /\ indexFile' = indexFile
             /\ writes' = writes
             /\ log' = Append(log, "indexMarkersMissing")]_vars

\* updateIndexPage has run on a homepage with neither marker, and on one with
\* only one of them.
C7_Witness ==
    /\ indexFile # None
    /\ log # <<>>
    /\ \A i \in 1..Len(log) : log[i] = "indexMarkersMissing"
    /\ writes = <<>>
    /\ \/ /\ IndexOfType(indexFile.text, "startMarker") = 0
          /\ IndexOfType(indexFile.text, "endMarker") = 0
       \/ /\ IndexOfType(indexFile.text, "startMarker") # 0
          /\ IndexOfType(indexFile.text, "endMarker") = 0

\* C8: when config.js holds no sidebar array, a run of updateVitePressConfig
\* leaves the file as it was, the navigation link included, writes nothing and
\* logs the warning instead of the success message.
C8_ConfigUntouchedWithoutSidebar ==
    [][(UpdateVitePressConfig /\ configFile # None
            /\ IndexOfType(configFile.text, "sidebar") = 0)
          => /\ configFile' = configFile
             /\ writes' = writes
             /\ log' = Append(log, "sidebarWarning")]_vars

----------------------------------------------------------------------------
(* The list of weekly documents, as the two regenerators render it *)

\* The rendered list as its lines: a month heading, or an entry.
sidebarLines(groups) ==
    Concat([i \in 1..Len(groups) |->
               <<[t |-> "month", text |-> groups[i].text]>> \o
               [j \in 1..Len(groups[i].items) |->
                   [t |-> "entry", text |-> groups[i].items[j].text]]])

RECURSIVE listLines(_, _)
\* The lines of the list that follows the first start marker of a homepage.
listLines(text, i) ==
    IF i > Len(text) \/ text[i].t \notin {"month", "entry"} THEN <<>>
    ELSE <<[t |-> text[i].t, text |-> text[i].text]>> \o listLines(text, i + 1)

IsMonth(line) == line.t = "month"
IsEntry(line) == line.t = "entry"

\* The heading an entry stands under: the nearest one above it.
HeadingOf(lines, k) ==
    LET j == CHOOSE h \in 1..k : lines[h].t = "month" /\ \A g \in (h + 1)..k : lines[g].t # "month"
    IN  lines[j].text

\* The local day on which the period of week w ends.
EndDay(w, zone) == AddTime(getWeekPeriod(w).end, 0, zone * MsPerHour).day

InMonthOf(day, month) ==
    /\ DaysFromCivil(month.year, month.month, 1) <= day
    /\ day < (IF month.month = 12 THEN DaysFromCivil(month.year + 1, 1, 1)
              ELSE DaysFromCivil(month.year, month.month + 1, 1))

TwoDigitWeeks(dir) == {w \in 0..99 : weekFileName(w) \in dir}

ListWellFormed(lines, dir, zone) ==
    LET entries  == SelectSeq(lines, IsEntry)
        headings == SelectSeq(lines, IsMonth)
    IN  \* each document is listed exactly once
        /\ {entries[k].text.week : k \in 1..Len(entries)} = TwoDigitWeeks(dir)
        /\ Len(entries) = Cardinality(TwoDigitWeeks(dir))
        \* under a heading, that of the month in which its period ends
        /\ lines # <<>> => lines[1].t = "month"
        /\ \A k \in 1..Len(lines) :
               lines[k].t = "entry" =>
                   InMonthOf(EndDay(lines[k].text.week, zone), HeadingOf(lines, k))
        \* no month has two headings, none is empty, later months come first
        /\ \A k \in 1..(Len(headings) - 1) :
               headings[k].text.year * 12 + headings[k].text.month
                   > headings[k + 1].text.year * 12 + headings[k + 1].text.month
        /\ \A k \in 1..Len(lines) :
               lines[k].t = "month" => (k < Len(lines) /\ lines[k + 1].t = "entry")
        \* the entries, under a heading and as a whole, are in descending order
        /\ \A k \in 1..(Len(entries) - 1) : entries[k].text.week > entries[k + 1].text.week

SidebarWritten(text) ==
    IndexOfType(text, "sidebar") # 0
        => ListWellFormed(sidebarLines(text[IndexOfType(text, "sidebar")].groups), files, tz)

HomepageWritten(text) ==
    ListWellFormed(listLines(text, IndexOfType(text, "startMarker") + 1), files, tz)

\* C9: every list the regenerators write, the sidebar of config.js and the
\* list of index.md, holds each weekly document once, under the month in which
\* the period of its week ends, with the weeks in strictly descending order
\* under each month and the months in descending order, so that the whole
\* list descends by week.
C9_MonthBucketsDescending ==
    \A i \in 1..Len(writes) :
        IF writes[i].path = "config.js"
        THEN SidebarWritten(writes[i].text)
        ELSE HomepageWritten(writes[i].text)

\* Both regenerators have written a list of at least three documents over
\* two months, one of them the week that starts in one month and ends in the
\* next, in a zone east of UTC.
C9_Witness ==
    /\ tz = 8
    /\ {1, 5, 40} \subseteq TwoDigitWeeks(files)
    /\ \E i \in 1..Len(writes) :
           /\ writes[i].path = "config.js"
           /\ IndexOfType(writes[i].text, "sidebar") # 0
           /\ Len(writes[i].text[IndexOfType(writes[i].text, "sidebar")].groups) >= 2
    /\ \E i \in 1..Len(writes) :
           /\ writes[i].path = "index.md"
           /\ Len(listLines(writes[i].text, IndexOfType(writes[i].text, "startMarker") + 1)) >= 5

----------------------------------------------------------------------------
(* main: the whole pipeline, from the week argument to the exit status *)

\* process.argv[2], a string
Arg(chars) == [chars |-> chars]

\* process.argv[2] || 1, as the string toString() gives: the empty string and
\* a missing argument both give 1
weekString(arg) == IF arg = None \/ arg.chars = <<>> THEN <<"1">> ELSE arg.chars

RECURSIVE leadingDigits(_)
leadingDigits(str) ==
    IF str = <<>> \/ ~ IsDigit(Head(str)) THEN <<>>
    ELSE <<Head(str)>> \o leadingDigits(Tail(str))

RECURSIVE digitsValue(_)
digitsValue(digits) ==
    IF digits = <<>> THEN 0
    ELSE digitsValue(SubSeq(digits, 1, Len(digits) - 1)) * 10 + DigitValue(digits[Len(digits)])

\* parseInt(str): the number its leading digits spell, NaN when it has none
parseInt(str) ==
    [nan |-> leadingDigits(str) = <<>>, value |-> digitsValue(leadingDigits(str))]

\* `${weekNumber.toString().padStart(2, '0')}.md`
outputName(arg) == padStart2(weekString(arg)) \o DotMd

\* The answers of the GitHub API to the queries about one repository.
fetcherOutcome(f, state, resp, p, lim) ==
    CASE f = "info" -> getRepoInfo(githubRequest(resp["repo"]))
      [] f = "commits" ->
            IF state = Pending
            THEN getCommitCountSearched(githubRequest(resp["searchCommits"]))
            ELSE getCommitCountListed(githubRequest(resp["listCommits"]))
      [] f = "releases" -> getReleases(githubRequest(resp["releases"]), p.start, p.end)
      [] f = "prs" -> getPullRequests(githubRequest(resp["searchPRs"]))
      [] f = "issues" -> getTopIssues(githubRequest(resp["searchIssues"]), lim)

\* The record getWeeklyData returns, with its repo field.
repoSnapshot(name, s, p) == [field \in {"repo"} |-> name] @@ makeSnapshot(s, p)

Event(e, repo, what) == [e |-> e, repo |-> repo, what |-> what]

\* main().catch(console.error): the rejection of main's promise is handled.
mainHasCatch == TRUE

\* The status the process ends with: 1 from the unhandledRejection handler,
\* which runs for a rejected promise nothing handles; 0 otherwise.
exitStatus(rej) == IF rej # None /\ ~ mainHasCatch THEN 1 ELSE 0

\* main from its start to the loop: the period is computed and logged;
\* toISOString() throws a RangeError on the Invalid Date of a NaN week.
MainStarts ==
    /\ pc = "start"
    /\ weekNumber' = parseInt(weekString(argv)).value
    /\ IF parseInt(weekString(argv)).nan
       THEN /\ rejection' = [reason |-> "invalidWeek"]
            /\ pc' = "rejected"
            /\ UNCHANGED period
       ELSE /\ period' = getWeekPeriod(parseInt(weekString(argv)).value)
            /\ pc' = "collect"
            /\ UNCHANGED rejection
    /\ UNCHANGED <<prevPeriod, fetchVars, aiVars, renderVars, indexVars,
                   argv, repos, events, docFile, exitCode, runs, disk0>>

\* The loop calls getWeeklyData for the next repository: Promise.all([...])
\* runs each fetcher up to its first await, which sends its request.
MainDispatches ==
    /\ pc = "collect"
    /\ Len(weeklyData) < Len(repos)
    /\ requests' = <<"repo", "searchCommits", "releases", "searchPRs", "searchIssues">>
    /\ sub' = [f \in Fetchers |-> Pending]
    /\ snapshot' = None
    /\ events' = events \o
                 [i \in 1..5 |-> Event("dispatch", Len(weeklyData) + 1,
                                       <<"info", "commits", "releases", "prs", "issues">>[i])]
    /\ pc' = "join"
    /\ UNCHANGED <<periodVars, responses, limit, aiVars, renderVars, indexVars,
                   argv, repos, docFile, rejection, exitCode, runs, disk0>>

FetcherSettles(f, outcome) ==
    /\ sub' = [sub EXCEPT ![f] = outcome]
    /\ requests' = IF outcome = AwaitListing THEN Append(requests, "listCommits") ELSE requests
    /\ events' = IF Settled(outcome)
                 THEN Append(events, Event("complete", Len(weeklyData) + 1, f))
                 ELSE events

\* A fetcher of the repository in hand resumes with the answer to its request.
MainFetcherReturns ==
    /\ pc = "join"
    /\ \E f \in Fetchers :
          /\ sub[f] \in {Pending, AwaitListing}
          /\ FetcherSettles(f, fetcherOutcome(f, sub[f], responses, period, limit))
    /\ UNCHANGED <<periodVars, responses, limit, snapshot, aiVars, renderVars, indexVars,
                   pc, argv, repos, docFile, rejection, exitCode, runs, disk0>>

\* A mutant of MainJoins: the loop goes on without the pause.
MainJoinsWithoutPause ==
    /\ pc = "join"
    /\ \A f \in Fetchers : Settled(sub[f])
    /\ snapshot' = Fulfilled(makeSnapshot(sub, period))
    /\ weeklyData' = Append(weeklyData, repoSnapshot(repos[Len(weeklyData) + 1], sub, period))
    /\ events' = Append(events, Event("push", Len(weeklyData) + 1, "snapshot"))
    /\ pc' = "collect"
    /\ UNCHANGED <<periodVars, responses, requests, sub, limit, aiVars, content, indexVars,
                   argv, repos, docFile, rejection, exitCode, runs, disk0>>

\* Promise.all settles, getWeeklyData returns and main pushes the snapshot;
\* a rejected fetcher would reject getWeeklyData and main with it.
MainJoins ==
    /\ pc = "join"
    /\ \A f \in Fetchers : Settled(sub[f])
    /\ IF \E f \in Fetchers : sub[f].state = "rejected"
       THEN /\ snapshot' = Rejected
            /\ rejection' = [reason |-> "fetch"]
            /\ pc' = "rejected"
            /\ UNCHANGED <<weeklyData, events>>
       ELSE /\ snapshot' = Fulfilled(makeSnapshot(sub, period))
            /\ weeklyData' = Append(weeklyData,
                                    repoSnapshot(repos[Len(weeklyData) + 1], sub, period))
            /\ events' = Append(events, Event("push", Len(weeklyData) + 1, "snapshot"))
            /\ pc' = "pause"
            /\ UNCHANGED rejection
    /\ UNCHANGED <<periodVars, responses, requests, sub, limit, aiVars, content, indexVars,
                   argv, repos, docFile, exitCode, runs, disk0>>

\* await new Promise(resolve => setTimeout(resolve, 1000))
PauseElapses ==
    /\ pc = "pause"
    /\ events' = Append(events, Event("pause", Len(weeklyData), "elapsed"))
    /\ pc' = "collect"
    /\ UNCHANGED <<periodVars, fetchVars, aiVars, renderVars, indexVars,
                   argv, repos, docFile, rejection, exitCode, runs, disk0>>

RenderStep(r) ==
    /\ RenderAdvances(r)
    /\ pc' = IF r.done THEN "write" ELSE "render"

\* The loop is over: generateWeeklyContent is called and runs to its first
\* await or to its end.
MainRenders ==
    /\ pc = "collect"
    /\ Len(weeklyData) = Len(repos)
    /\ events' = Append(events, Event("render", Len(weeklyData), "start"))
    /\ RenderStep(runRender(<<>>, <<>>, "unselected"))
    /\ UNCHANGED <<periodVars, fetchVars, env, weeklyData, indexVars,
                   argv, repos, docFile, rejection, exitCode, runs, disk0>>

\* The awaited AI backend answers; generateWeeklyContent runs on.
MainRenderResumes ==
    /\ pc = "render"
    /\ aiPending # "none"
    /\ \E resp \in AiResponses :
          RenderStep(runRender(Append(aiResults, analyzeResult(aiPending, resp)),
                               aiContacted, aiSelected))
    /\ UNCHANGED <<periodVars, fetchVars, env, weeklyData, indexVars,
                   argv, repos, events, docFile, rejection, exitCode, runs, disk0>>

\* await fs.writeFile(outputPath, content, 'utf8') succeeds
MainWritesDocument ==
    /\ pc = "write"
    /\ files' = files \cup {outputName(argv)}
    /\ docFile' = [text |-> content]
    /\ writes' = Append(writes, [path |-> "docs", text |-> content])
    /\ pc' = "config"
    /\ UNCHANGED <<periodVars, fetchVars, aiVars, renderVars, tz, configFile, indexFile, log,
                   argv, repos, events, rejection, exitCode, runs, disk0>>

\* fs.writeFile rejects (docs/ is missing or not writable): main has no
\* try/catch around it.
MainWriteRejects ==
    /\ pc = "write"
    /\ rejection' = [reason |-> "writeFailed"]
    /\ pc' = "rejected"
    /\ UNCHANGED <<periodVars, fetchVars, aiVars, renderVars, indexVars,
                   argv, repos, events, docFile, exitCode, runs, disk0>>

\* await updateVitePressConfig(weekNumber)
MainUpdatesConfig ==
    /\ pc = "config"
    /\ ConfigRegenerated(files)
    /\ pc' = "index"
    /\ UNCHANGED <<periodVars, fetchVars, aiVars, renderVars, tz, files, indexFile,
                   argv, repos, events, docFile, rejection, exitCode, runs, disk0>>

\* await updateIndexPage(weekNumber), and the closing messages
MainUpdatesIndex ==
    /\ pc = "index"
    /\ IndexRegenerated(files)
    /\ pc' = "done"
    /\ UNCHANGED <<periodVars, fetchVars, aiVars, renderVars, tz, files, configFile,
                   argv, repos, events, docFile, rejection, exitCode, runs, disk0>>

\* main's promise has settled and nothing is pending: the process ends.
ProcessExits ==
    /\ pc \in {"done", "rejected"}
    /\ exitCode' = [code |-> exitStatus(rejection)]
    /\ pc' = "exited"
    /\ UNCHANGED <<periodVars, fetchVars, aiVars, renderVars, indexVars,
                   argv, repos, events, docFile, rejection, runs, disk0>>

----------------------------------------------------------------------------
(* SpecMain: one run of main, from every small week argument, configuration,
   set of answers and state of the three files *)

\* CONFIG.repos as it is, and with the second repository of its comment.
ConfiguredRepos == {<<"openclaw">>, <<"openclaw", "docs">>}

WeekArguments ==
    {None, Arg(<<"1">>), Arg(<<"5">>), Arg(<<"1", "0", "0">>), Arg(<<"x">>)}

\* The period the answers are about: that of the week argument.
ArgumentPeriod(arg) == getWeekPeriod(parseInt(weekString(arg)).value)

\* Every query answered, every query failing, and some of each.
AllAnswered(p) ==
    [repo |-> Ok(SampleRepo), searchCommits |-> Ok([total_count |-> 3]),
     listCommits |-> Ok(SampleListing),
     releases |-> Ok(ReleasePage(<<p.start, AddTime(p.end, 0, 1)>>)),
     searchPRs |-> Ok([total_count |-> 2,
                       items |-> <<[number |-> 11, state |-> "open", merged_at |-> None]>>]),
     searchIssues |-> Ok(IssuePage(<<[pull_request |-> FALSE, reactions |-> 1]>>))]

NoneAnswered == [e \in Endpoints |-> NetworkError]

SomeAnswered(p) ==
    [AllAnswered(p) EXCEPT !["repo"] = HttpError, !["releases"] = NetworkError,
                           !["searchCommits"] = HttpError, !["searchIssues"] = HttpError]

NoKeys == [dify |-> Unset, qwen |-> Unset, openai |-> Unset, claude |-> Unset]
DifyKey == [NoKeys EXCEPT !.dify = Key(<<"k", "e", "y">>)]

StandardConfig == [text |-> <<Text(1), StaleNav, Text(2), StaleSidebar, Text(3)>>]
StandardIndex == [text |-> <<Text(1), StartMarker, Text(2), EndMarker, Text(3)>>]

\* The transient state of a process that has just started.
ProcessFresh ==
    /\ pc = "start"
    /\ weekNumber = 0
    /\ period = None
    /\ prevPeriod = None
    /\ requests = <<>>
    /\ sub = NoOutcomes
    /\ limit = TopIssuesLimit
    /\ snapshot = None
    /\ aiSelected = "unselected"
    /\ aiPending = "none"
    /\ aiContacted = <<>>
    /\ aiResults = <<>>
    /\ weeklyData = <<>>
    /\ content = None
    /\ events = <<>>
    /\ rejection = None
    /\ exitCode = None

\* The collecting loop under every configuration and set of answers.
InitCollect ==
    /\ argv = Arg(<<"5">>)
    /\ repos \in ConfiguredRepos
    /\ responses \in {AllAnswered(ArgumentPeriod(argv)), SomeAnswered(ArgumentPeriod(argv))}
    /\ env = NoKeys
    /\ tz = 0
    /\ files = {weekFileName(1)}
    /\ configFile = StandardConfig
    /\ indexFile = StandardIndex

\* The renderer with an AI backend.
InitSummaries ==
    /\ argv = Arg(<<"5">>)
    /\ repos = <<"openclaw">>
    /\ responses = AllAnswered(ArgumentPeriod(argv))
    /\ env = DifyKey
    /\ tz = 0
    /\ files = {}
    /\ configFile = StandardConfig
    /\ indexFile = StandardIndex

\* Every week argument, on files that hold their anchors.
InitDisk ==
    /\ argv \in WeekArguments
    /\ repos = <<"openclaw">>
    /\ responses = NoneAnswered
    /\ env = NoKeys
    /\ tz \in {0, 8}
    /\ files \in {{}, {weekFileName(4), weekFileName(40)}}
    /\ configFile = StandardConfig
    /\ indexFile = StandardIndex

\* Files that are missing, or that do not hold their anchors.
InitBrokenDisk ==
    /\ argv = Arg(<<"5">>)
    /\ repos = <<"openclaw">>
    /\ responses = NoneAnswered
    /\ env = NoKeys
    /\ tz = 0
    /\ files = {weekFileName(4)}
    /\ configFile \in {None, StandardConfig, [text |-> <<Text(1), StaleNav, Text(2)>>]}
    /\ indexFile \in {None, StandardIndex, [text |-> <<Text(1), StartMarker, Text(2)>>]}

InitMain ==
    /\ ProcessFresh
    /\ (InitCollect \/ InitSummaries \/ InitDisk \/ InitBrokenDisk)
    /\ docFile = None
    /\ writes = <<>>
    /\ log = <<>>
    /\ runs = 1
    /\ disk0 = [files |-> files, config |-> configFile, index |-> indexFile]

NextMain ==
    \/ MainStarts
    \/ MainDispatches
    \/ MainFetcherReturns
    \/ MainJoins
    \/ PauseElapses
    \/ MainRenders
    \/ MainRenderResumes
    \/ MainWritesDocument
    \/ MainWriteRejects
    \/ MainUpdatesConfig
    \/ MainUpdatesIndex
    \/ ProcessExits

SpecMain == InitMain /\ [][NextMain]_vars

\* C12: a run in which main's promise is rejected (the week argument is not a
\* number, or the write of the document fails) ends with a non-zero status;
\* a run in which only queries fail, credentials are missing or anchors are
\* not found ends with status zero.
C12_ExitStatusTellsFailure ==
    exitCode # None =>
        IF rejection # None THEN exitCode.code # 0 ELSE exitCode.code = 0

\* The event happened among the first n events of the loop.
Happened(ev, n) == \E j \in 1..n : events[j] = ev

FetcherOrder == <<"info", "commits", "releases", "prs", "issues">>

(* C14: main handles the repositories one at a time.  The five sub-queries
   of a repository are dispatched together; its snapshot is pushed after all
   five have completed, and the pause follows; no sub-query of the next
   repository is dispatched before that pause has elapsed; rendering starts
   after every snapshot was pushed; the snapshots are in the order of
   CONFIG.repos. *)
C14_OneRepositoryAtATime ==
    /\ \A i \in 1..Len(events) :
          CASE events[i].e = "dispatch" ->
                  /\ \E k \in 1..5 :
                        /\ i - k + 1 >= 1 /\ i - k + 5 <= Len(events)
                        /\ \A n \in 1..5 :
                              events[i - k + n]
                                  = Event("dispatch", events[i].repo, FetcherOrder[n])
                  /\ events[i].repo > 1 =>
                        Happened(Event("pause", events[i].repo - 1, "elapsed"), i - 1)
            [] events[i].e = "complete" ->
                  /\ Happened(Event("dispatch", events[i].repo, events[i].what), i - 1)
                  /\ ~ Happened(Event("push", events[i].repo, "snapshot"), i - 1)
            [] events[i].e = "push" ->
                  /\ Len(weeklyData) >= events[i].repo
                  /\ \A f \in Fetchers : Happened(Event("complete", events[i].repo, f), i - 1)
            [] events[i].e = "pause" ->
                  events[i - 1] = Event("push", events[i].repo, "snapshot")
            [] events[i].e = "render" ->
                  /\ i = Len(events)
                  /\ \A r \in 1..Len(repos) : Happened(Event("pause", r, "elapsed"), i - 1)
    /\ Len(weeklyData) <= Len(repos)
    /\ \A k \in 1..Len(weeklyData) : weeklyData[k].repo = repos[k]
    /\ (content # None \/ aiPending # "none") =>
          /\ Len(weeklyData) = Len(repos)
          /\ events # <<>> /\ events[Len(events)].e = "render"

Before(ev1, ev2) ==
    \E i, j \in 1..Len(events) : i < j /\ events[i] = ev1 /\ events[j] = ev2

\* Two repositories were collected, the answers to the first arriving in
\* another order than the queries were sent, and the document is rendered.
C14_Witness ==
    /\ Len(repos) = 2
    /\ content # None
    /\ weeklyData[1].repo = "openclaw" /\ weeklyData[2].repo = "docs"
    /\ Before(Event("complete", 1, "issues"), Event("complete", 1, "info"))
    /\ Before(Event("complete", 2, "prs"), Event("complete", 2, "commits"))
    /\ weeklyData[1].commits.total = 3

\* `/docs/${N.toString().padStart(2, '0')}`, the link of the entry of week N
weekLink(n) == <<"/", "d", "o", "c", "s", "/">> \o padStart2(ToDigits(n))

\* The links of the entries of the first sidebar array of config.js.
SidebarLinksTo(text, link) ==
    /\ IndexOfType(text, "sidebar") # 0
    /\ \E i \in 1..Len(text[IndexOfType(text, "sidebar")].groups) :
          \E j \in 1..Len(text[IndexOfType(text, "sidebar")].groups[i].items) :
              text[IndexOfType(text, "sidebar")].groups[i].items[j].link = link

\* An entry of the list of index.md has the link.
HomepageLinksTo(text, link) ==
    \E i \in 1..Len(text) : text[i].t = "entry" /\ text[i].link = link

HasAnchors(disk) ==
    /\ disk.config # None /\ IndexOfType(disk.config.text, "sidebar") # 0
    /\ disk.index # None /\ ~ MarkersMissing(disk.index.text)

\* C15: after a run of main for a week N >= 1 that completes, on a config.js
\* with its sidebar array and an index.md with both markers, the sidebar and
\* the list of the homepage each hold an entry that links to week N.
C15_NewWeekIsListed ==
    (pc = "done" /\ HasAnchors(disk0) /\ weekNumber >= 1) =>
        /\ SidebarLinksTo(configFile.text, weekLink(weekNumber))
        /\ HomepageLinksTo(indexFile.text, weekLink(weekNumber))

----------------------------------------------------------------------------
(* SpecRerun: the pipeline run again and again for the same week, with the
   same answers, a run being killed at any point between its writes *)

\* The process is killed before the first write, or after the first, the
\* second or the third.
ProcessKilled ==
    /\ pc \in {"write", "config", "index", "done"}
    /\ pc' = "killed"
    /\ UNCHANGED <<periodVars, fetchVars, aiVars, renderVars, indexVars,
                   argv, repos, events, docFile, rejection, exitCode, runs, disk0>>

\* The script is started again with the same argument: nothing is kept but
\* the files.
Rerun ==
    /\ pc \in {"killed", "exited"}
    /\ runs < MaxRuns
    /\ runs' = runs + 1
    /\ pc' = "start"
    /\ weekNumber' = 0
    /\ period' = None
    /\ requests' = <<>>
    /\ sub' = NoOutcomes
    /\ snapshot' = None
    /\ weeklyData' = <<>>
    /\ content' = None
    /\ events' = <<>>
    /\ rejection' = None
    /\ exitCode' = None
    /\ UNCHANGED <<prevPeriod, limit, aiSelected, aiPending, aiContacted, aiResults>>
    /\ UNCHANGED <<responses, env, indexVars, argv, repos, docFile, disk0>>

\* A homepage whose feature section stands above its list of weeks.
ListLastIndex == [text |-> <<Text(1), EndMarker, Text(2), StartMarker, Text(3)>>]

InitRerun ==
    /\ ProcessFresh
    /\ argv \in {Arg(<<"5">>), Arg(<<"1", "0", "0">>)}
    /\ repos = <<"openclaw">>
    /\ responses = SomeAnswered(ArgumentPeriod(argv))
    /\ env = NoKeys
    /\ tz = 0
    /\ files = {weekFileName(4)}
    /\ configFile \in {None, StandardConfig, [text |-> <<StaleSidebar, StaleNav, StaleSidebar>>]}
    /\ indexFile \in {None, StandardIndex, ListLastIndex}
    /\ docFile = None
    /\ writes = <<>>
    /\ log = <<>>
    /\ runs = 1
    /\ disk0 = [files |-> files, config |-> configFile, index |-> indexFile]

NextRerun ==
    \/ MainStarts
    \/ MainDispatches
    \/ MainFetcherReturns
    \/ MainJoins
    \/ PauseElapses
    \/ MainRenders
    \/ MainWritesDocument
    \/ MainUpdatesConfig
    \/ MainUpdatesIndex
    \/ ProcessExits
    \/ ProcessKilled
    \/ Rerun

SpecRerun == InitRerun /\ [][NextRerun]_vars

\* The three files as one uninterrupted run from the first state leaves them.
IsDocument(w) == w.path = "docs"

UninterruptedConfig ==
    IF disk0.config = None THEN None
    ELSE [text |-> updatedConfig(disk0.config.text,
                                 disk0.files \cup {outputName(argv)}, tz)]

UninterruptedIndex ==
    IF disk0.index = None THEN None
    ELSE [text |-> patchIndex(disk0.index.text,
                              weeklyListContent(disk0.files \cup {outputName(argv)}, tz)).text]

(* C13: with the answers held fixed, whenever a run for week N completes,
   be it the first run, a run after runs that were killed between their
   writes, or a run after complete runs, the document, config.js and
   index.md are as one uninterrupted run from the first state leaves them. *)
C13_RerunIsIdempotent ==
    pc = "done" =>
        /\ docFile = [text |-> content]
        /\ \A i \in 1..Len(writes) :
              IsDocument(writes[i]) => writes[i].text = SelectSeq(writes, IsDocument)[1].text
        /\ configFile = UninterruptedConfig
        /\ indexFile = UninterruptedIndex

====
